---- MODULE Spec2Model ----
(***************************************************************************)
(* Model of litestar/logging/config.py: the exception logging handler      *)
(* factory, the two logging configuration dataclasses (LoggingConfig and   *)
(* StructLoggingConfig) with their __post_init__ defaulting and their      *)
(* configure() methods, the structlog processor pipeline builders and the  *)
(* get_logger placeholder.                                                 *)
(*                                                                         *)
(* Python values are modelled as follows.  A dict is a function from its   *)
(* keys; a dataclass instance is a record of its fields; a list object is  *)
(* PyList(items) (a record, so that it can be compared with None); a text  *)
(* is a sequence of tokens, so that joining and prepending are sequence    *)
(* concatenation; a callable is a record naming it.                        *)
(***************************************************************************)
EXTENDS Integers, Sequences, FiniteSets, TLC

VARIABLES
    env,         \* what the process has installed: structlog, picologging, python >= 3.12
    handler,     \* the exception logging handler built by the factory (None before)
    ctor,        \* the arguments the application passed to the config constructor
    config,      \* the application's one config object (None before construction)
    get_logger,  \* the accessor the application holds
    backend,     \* the calls made to the backends' native configuration entry points
    nConfigure,  \* the number of configure() calls made
    out          \* what the last operation returned, raised or emitted

vars == <<env, handler, ctor, config, get_logger, backend, nConfigure, out>>

(***************************************************************************)
(* Bounds of the model.                                                    *)
(***************************************************************************)
MaxTbLen == 4
MaxLimit == 2
MaxConfigure == 2

(***************************************************************************)
(* Python values.                                                          *)
(***************************************************************************)
None == [py |-> "None"]
MISSING == [py |-> "MISSING"]
PyList(s) == [items |-> s]
EmptyDict == [k \in {} |-> None]
NoOut == [op |-> "none"]

\* s[start:] for a Python list
PySliceFrom(s, start) ==
    LET n == Len(s)
        i == IF start < 0
             THEN (IF n + start < 0 THEN 0 ELSE n + start)
             ELSE (IF start > n THEN n ELSE start)
    IN  SubSeq(s, i + 1, n)

\* "".join(parts)
RECURSIVE Join(_)
Join(parts) == IF parts = <<>> THEN <<>> ELSE Head(parts) \o Join(Tail(parts))

(***************************************************************************)
(* The exception logging handler.                                          *)
(***************************************************************************)
LineTexts == {<<"f">>, <<"g">>}
Tracebacks == UNION {[1..m -> LineTexts] : m \in 0..MaxTbLen}
Loggers == {[name |-> "litestar", fails |-> f] : f \in BOOLEAN}
Scopes == {[type |-> t, path |-> "/route"] : t \in {"http", "websocket"}}

\* logger.exception(...): the logger records the call, or its emission raises
LoggerException(logger, call, tb) ==
    IF logger.fails
    THEN [raised |-> TRUE, exc |-> "EmissionError", calls |-> <<>>, tb |-> tb]
    ELSE [raised |-> FALSE, exc |-> "", calls |-> <<call>>, tb |-> tb]

\* tb[-traceback_line_limit:]
TracebackTail(tb, traceback_line_limit) == PySliceFrom(tb, 0 - traceback_line_limit)

_default_exception_logging_handler(is_struct_logger, traceback_line_limit, logger, scope, tb0) ==
    IF tb0 = <<>>
    THEN \* tb.pop(0) on an empty list
         [raised |-> TRUE, exc |-> "IndexError", calls |-> <<>>, tb |-> tb0]
    ELSE LET first_line == Head(tb0)
             tb == Tail(tb0)
         IN  IF is_struct_logger
             THEN LoggerException(logger,
                      [event |-> "Uncaught Exception",
                       connection_type |-> scope.type,
                       path |-> scope.path,
                       traceback |-> Join(TracebackTail(tb, traceback_line_limit))],
                      tb)
             ELSE LET stack_trace == first_line \o Join(TracebackTail(tb, traceback_line_limit))
                  IN  LoggerException(logger,
                          [event |-> "exception raised on %s connection to route %s\n\n%s",
                           args |-> [type |-> scope.type, path |-> scope.path,
                                     stack_trace |-> stack_trace]],
                          tb)

\* the closure the factory returns
_default_exception_logging_handler_factory(is_struct_logger, traceback_line_limit) ==
    [kind |-> "default",
     is_struct_logger |-> is_struct_logger,
     traceback_line_limit |-> traceback_line_limit]

CustomHandler == [kind |-> "custom"]

(***************************************************************************)
(* Default tables.                                                         *)
(***************************************************************************)
\* the module-level table, with the python >= 3.12 entry added at import
default_handlers(e) ==
    [console |-> [class |-> "logging.StreamHandler",
                  level |-> "DEBUG",
                  formatter |-> "standard"],
     queue_listener |->
        IF e.py312
        THEN [class |-> "litestar.logging.standard.QueueListenerHandler",
              level |-> "DEBUG",
              formatter |-> "standard",
              handlers |-> <<"console">>]
        ELSE [class |-> "litestar.logging.standard.QueueListenerHandler",
              level |-> "DEBUG",
              formatter |-> "standard"]]

default_picologging_handlers ==
    [console |-> [class |-> "picologging.StreamHandler",
                  level |-> "DEBUG",
                  formatter |-> "standard"],
     queue_listener |-> [class |-> "litestar.logging.picologging.QueueListenerHandler",
                         level |-> "DEBUG",
                         formatter |-> "standard"]]

\* find_spec("picologging") finds the package exactly when it is installed
_get_default_handlers(e) ==
    IF e.picologging THEN default_picologging_handlers ELSE default_handlers(e)

\* get_logger_placeholder answering with a logger instead of raising
get_logger_placeholder_Returns(name) ==
    [raised |-> FALSE, exc |-> "", logger |-> [factory |-> "get_logger_placeholder", name |-> name]]

get_logger_placeholder(name) ==
    [raised |-> TRUE, exc |-> "ImproperlyConfiguredException", logger |-> None]

(***************************************************************************)
(* LoggingConfig.                                                          *)
(***************************************************************************)
DefaultTracebackLineLimit == 20

default_formatters ==
    [standard |-> [format |-> "%(levelname)s - %(asctime)s - %(name)s - %(module)s - %(message)s"]]

default_loggers ==
    [litestar |-> [level |-> "INFO", handlers |-> <<"queue_listener">>, propagate |-> FALSE]]

default_root == [handlers |-> <<"queue_listener">>, level |-> "INFO"]

\* the dataclass-generated __init__: an omitted argument takes the field's default
LoggingConfig_init(args, e) ==
    [version |-> 1,
     incremental |-> FALSE,
     disable_existing_loggers |-> FALSE,
     filters |-> None,
     propagate |-> args.propagate,
     formatters |-> IF args.formatters = MISSING THEN default_formatters ELSE args.formatters,
     handlers |-> IF args.handlers = MISSING THEN _get_default_handlers(e) ELSE args.handlers,
     loggers |-> IF args.loggers = MISSING THEN default_loggers ELSE args.loggers,
     root |-> IF args.root = MISSING THEN default_root ELSE args.root,
     configure_root_logger |-> args.configure_root_logger,
     log_exceptions |-> args.log_exceptions,
     traceback_line_limit |-> args.traceback_line_limit,
     exception_logging_handler |-> args.exception_logging_handler]

\* __post_init__ leaving a handlers map without "queue_listener" as it is
PostInit_handlers_NoInsert(self, e) == self

\* if "queue_listener" not in self.handlers: ...
PostInit_handlers(self, e) ==
    IF "queue_listener" \notin DOMAIN self.handlers
    THEN [self EXCEPT !.handlers =
              ("queue_listener" :> _get_default_handlers(e)["queue_listener"]) @@ self.handlers]
    ELSE self

\* if "litestar" not in self.loggers: ...
PostInit_loggers(self) ==
    IF "litestar" \notin DOMAIN self.loggers
    THEN [self EXCEPT !.loggers =
              ("litestar" :> [level |-> "INFO",
                              handlers |-> <<"queue_listener">>,
                              propagate |-> FALSE]) @@ self.loggers]
    ELSE self

\* the defaulting of the handler done whatever log_exceptions says
PostInit_exception_logging_handler_AnyPolicy(self, is_struct_logger) ==
    IF self.exception_logging_handler = None
    THEN [self EXCEPT !.exception_logging_handler =
              _default_exception_logging_handler_factory(is_struct_logger,
                                                         self.traceback_line_limit)]
    ELSE self

\* if self.log_exceptions != "never" and self.exception_logging_handler is None: ...
PostInit_exception_logging_handler(self, is_struct_logger) ==
    IF self.log_exceptions # "never" /\ self.exception_logging_handler = None
    THEN [self EXCEPT !.exception_logging_handler =
              _default_exception_logging_handler_factory(is_struct_logger,
                                                         self.traceback_line_limit)]
    ELSE self

LoggingConfig_post_init(self, e) ==
    PostInit_exception_logging_handler(PostInit_loggers(PostInit_handlers(self, e)), FALSE)

\* LoggingConfig(**args)
LoggingConfig_new(args, e) == LoggingConfig_post_init(LoggingConfig_init(args, e), e)

\* the arguments of LoggingConfig() called with none
LoggingConfigDefaultArgs ==
    [cls |-> "LoggingConfig",
     propagate |-> TRUE,
     formatters |-> MISSING,
     handlers |-> MISSING,
     loggers |-> MISSING,
     root |-> MISSING,
     configure_root_logger |-> TRUE,
     log_exceptions |-> "debug",
     traceback_line_limit |-> DefaultTracebackLineLimit,
     exception_logging_handler |-> None]

\* "picologging" in str(encode_json(self.handlers)): of the strings of this model,
\* the class paths below are the ones that contain it
PicologgingStrings ==
    {"picologging.StreamHandler", "litestar.logging.picologging.QueueListenerHandler"}

MentionsPicologging(handlers) ==
    \E h \in DOMAIN handlers : handlers[h].class \in PicologgingStrings

\* v is None, for a field of the dataclass: the fields below are the ones whose
\* value may be None
OptionalFields == {"filters", "root", "exception_logging_handler"}

IsNoneField(self, k) == k \in OptionalFields /\ self[k] = None

\* the comprehension over asdict(self) keeping the configure_root_logger flag
CompiledValues_KeepsFlag(self, pico) ==
    LET dropped == IF pico THEN {"incremental"} ELSE {}
        keys == {k \in DOMAIN self : ~IsNoneField(self, k) /\ k \notin dropped}
    IN  [k \in keys |-> self[k]]

\* {k: v for k, v in asdict(self).items() if v is not None and k not in (...)}
CompiledValues(self, pico) ==
    LET dropped == IF pico THEN {"incremental", "configure_root_logger"}
                           ELSE {"configure_root_logger"}
        keys == {k \in DOMAIN self : ~IsNoneField(self, k) /\ k \notin dropped}
    IN  [k \in keys |-> self[k]]

\* config.dictConfig(values) called twice
dictConfig_Twice(entry, values) ==
    <<[entry |-> entry, settings |-> values], [entry |-> entry, settings |-> values]>>

\* config.dictConfig(values): the backend takes the settings
dictConfig(entry, values) == <<[entry |-> entry, settings |-> values]>>

LoggingConfig_configure(self, e) ==
    LET pico == MentionsPicologging(self.handlers)
        values == CompiledValues(self, pico)
    IN  IF pico /\ ~e.picologging
        THEN [raised |-> TRUE, exc |-> "MissingDependencyException", self |-> self,
              calls |-> <<>>, accessor |-> "none"]
        ELSE IF ~self.configure_root_logger /\ "root" \notin DOMAIN values
        THEN \* values.pop("root") without the key
             [raised |-> TRUE, exc |-> "KeyError", self |-> self,
              calls |-> <<>>, accessor |-> "none"]
        ELSE LET popped == IF ~self.configure_root_logger
                           THEN [k \in DOMAIN values \ {"root"} |-> values[k]]
                           ELSE values
             IN  [raised |-> FALSE, exc |-> "", self |-> self,
                  calls |-> dictConfig(IF pico THEN "picologging.config.dictConfig"
                                               ELSE "logging.config.dictConfig", popped),
                  accessor |-> IF pico THEN "picologging.getLogger" ELSE "logging.getLogger"]

(***************************************************************************)
(* The structlog processor pipelines and the logger factory.  A processor  *)
(* is a record naming the callable and the arguments it was built with.    *)
(***************************************************************************)
Processor(name, arg) == [name |-> name, arg |-> arg]

JSONRenderer(serializer) == Processor("structlog.processors.JSONRenderer", serializer)

ConsoleRenderer ==
    Processor("structlog.dev.ConsoleRenderer",
              "colors=True, RichTracebackFormatter(max_frames=1, show_locals=False, width=80)")

\* default_structlog_processors building the JSON pipeline for either value of as_json
default_structlog_processors_AlwaysJson(as_json, e) ==
    IF ~e.structlog
    THEN <<>>
    ELSE <<Processor("structlog.contextvars.merge_contextvars", ""),
           Processor("structlog.processors.add_log_level", ""),
           Processor("structlog.processors.format_exc_info", ""),
           Processor("structlog.processors.TimeStamper", "fmt=iso"),
           JSONRenderer("default_json_serializer")>>

default_structlog_processors(as_json, e) ==
    IF ~e.structlog
    THEN \* except ImportError
         <<>>
    ELSE IF as_json
    THEN <<Processor("structlog.contextvars.merge_contextvars", ""),
           Processor("structlog.processors.add_log_level", ""),
           Processor("structlog.processors.format_exc_info", ""),
           Processor("structlog.processors.TimeStamper", "fmt=iso"),
           JSONRenderer("default_json_serializer")>>
    ELSE <<Processor("structlog.contextvars.merge_contextvars", ""),
           Processor("structlog.processors.add_log_level", ""),
           Processor("structlog.processors.TimeStamper", "fmt=iso"),
           ConsoleRenderer>>

default_structlog_standard_lib_processors(as_json, e) ==
    IF ~e.structlog
    THEN \* except ImportError
         <<>>
    ELSE IF as_json
    THEN <<Processor("structlog.processors.TimeStamper", "fmt=iso"),
           Processor("structlog.stdlib.add_log_level", ""),
           Processor("structlog.stdlib.ExtraAdder", ""),
           Processor("StructlogEventFilter", "color_message"),
           Processor("structlog.stdlib.ProcessorFormatter.remove_processors_meta", ""),
           JSONRenderer("stdlib_json_serializer")>>
    ELSE <<Processor("structlog.processors.TimeStamper", "fmt=iso"),
           Processor("structlog.stdlib.add_log_level", ""),
           Processor("structlog.stdlib.ExtraAdder", ""),
           Processor("StructlogEventFilter", "color_message"),
           Processor("structlog.stdlib.ProcessorFormatter.remove_processors_meta", ""),
           ConsoleRenderer>>

default_logger_factory(as_json, e) ==
    IF ~e.structlog
    THEN \* except ImportError
         None
    ELSE IF as_json
    THEN [factory |-> "structlog.BytesLoggerFactory"]
    ELSE [factory |-> "structlog.WriteLoggerFactory"]

(***************************************************************************)
(* StructLoggingConfig.                                                    *)
(***************************************************************************)
\* the dataclass-generated __init__
StructLoggingConfig_init(args) ==
    [processors |-> args.processors,
     standard_lib_logging_config |-> args.standard_lib_logging_config,
     wrapper_class |-> None,
     context_class |-> None,
     logger_factory |-> args.logger_factory,
     cache_logger_on_first_use |-> TRUE,
     log_exceptions |-> args.log_exceptions,
     traceback_line_limit |-> args.traceback_line_limit,
     exception_logging_handler |-> args.exception_logging_handler,
     pretty_print_tty |-> args.pretty_print_tty]

\* if self.processors is None: ...
StructPostInit_processors(self, as_json, e) ==
    IF self.processors = None
    THEN [self EXCEPT !.processors = PyList(default_structlog_processors(as_json, e))]
    ELSE self

\* the logger factory left as the constructor got it
StructPostInit_logger_factory_Skipped(self, as_json, e) == self

\* if self.logger_factory is None: ...
StructPostInit_logger_factory(self, as_json, e) ==
    IF self.logger_factory = None
    THEN [self EXCEPT !.logger_factory = default_logger_factory(as_json, e)]
    ELSE self

\* the LoggingConfig whose "standard" formatter is structlog's ProcessorFormatter
BridgeFormatters(as_json, e) ==
    [standard |->
        [k \in {"()", "processors"} |->
            IF k = "()"
            THEN [factory |-> "structlog.stdlib.ProcessorFormatter"]
            ELSE PyList(default_structlog_standard_lib_processors(as_json, e))]]

\* try: import structlog ... except ImportError: ...
StructPostInit_standard_lib_logging_config(self, as_json, e) ==
    IF e.structlog
    THEN IF self.standard_lib_logging_config = None
         THEN [self EXCEPT !.standard_lib_logging_config =
                   LoggingConfig_new([LoggingConfigDefaultArgs EXCEPT
                                          !.formatters = BridgeFormatters(as_json, e)], e)]
         ELSE self
    ELSE [self EXCEPT !.standard_lib_logging_config =
              LoggingConfig_new(LoggingConfigDefaultArgs, e)]

\* isatty is what sys.stderr.isatty() answers while the object is constructed
StructLoggingConfig_post_init(self, isatty, e) ==
    LET as_json == ~isatty /\ self.pretty_print_tty
    IN  StructPostInit_standard_lib_logging_config(
            PostInit_exception_logging_handler(
                StructPostInit_logger_factory(
                    StructPostInit_processors(self, as_json, e), as_json, e),
                TRUE),
            as_json, e)

\* StructLoggingConfig(**args)
StructLoggingConfig_new(args, e) ==
    StructLoggingConfig_post_init(StructLoggingConfig_init(args), args.isatty, e)

StructBookkeepingFields ==
    {"standard_lib_logging_config", "log_exceptions", "traceback_line_limit",
     "exception_logging_handler", "pretty_print_tty"}

\* structlog.configure(**kwargs)
structlog_configure(kwargs) == <<[entry |-> "structlog.configure", settings |-> kwargs]>>

StructLoggingConfig_configure(self, e) ==
    IF ~e.structlog
    THEN [raised |-> TRUE, exc |-> "MissingDependencyException", self |-> self,
          calls |-> <<>>, accessor |-> "none"]
    ELSE [raised |-> FALSE, exc |-> "", self |-> self,
          calls |-> structlog_configure(
                        [k \in DOMAIN self \ StructBookkeepingFields |-> self[k]]),
          accessor |-> "structlog.get_logger"]

(***************************************************************************)
(* The arguments the application may pass to the constructors.             *)
(***************************************************************************)
LogExceptions == {"always", "debug", "never"}

HandlersArg(i) ==
    CASE i = 1 -> MISSING
      [] i = 2 -> EmptyDict
      [] i = 3 -> [console |-> [class |-> "logging.StreamHandler",
                                level |-> "INFO",
                                formatter |-> "standard"]]
      [] i = 4 -> [queue_listener |-> [class |-> "logging.handlers.QueueHandler",
                                       level |-> "INFO",
                                       formatter |-> "standard"]]
      [] i = 5 -> [queue_listener |-> [class |-> "litestar.logging.picologging.QueueListenerHandler",
                                       level |-> "INFO",
                                       formatter |-> "standard"]]

LoggersArg(i) ==
    CASE i = 1 -> MISSING
      [] i = 2 -> EmptyDict
      [] i = 3 -> [app |-> [level |-> "DEBUG", handlers |-> <<"queue_listener">>,
                            propagate |-> TRUE]]
      [] i = 4 -> [litestar |-> [level |-> "DEBUG", handlers |-> <<"queue_listener">>,
                                 propagate |-> TRUE]]

RootArg(i) ==
    CASE i = 1 -> MISSING
      [] i = 2 -> [level |-> "WARNING", handlers |-> <<"queue_listener">>]
      [] i = 3 -> None

ProcessorsArg(i) ==
    CASE i = 1 -> None
      [] i = 2 -> PyList(<<>>)
      [] i = 3 -> PyList(<<Processor("custom_processor", "")>>)

StandardLibArg(i, e) ==
    CASE i = 1 -> None
      [] i = 2 -> LoggingConfig_new(LoggingConfigDefaultArgs, e)
      [] i = 3 -> LoggingConfig_new([LoggingConfigDefaultArgs EXCEPT !.propagate = FALSE], e)

LoggerNames == {None, [str |-> "app"]}

(***************************************************************************)
(* Initial state: nothing built, nothing configured; the process has some  *)
(* combination of optional packages installed.                             *)
(***************************************************************************)
Init ==
    /\ env \in [structlog : BOOLEAN, picologging : BOOLEAN, py312 : BOOLEAN]
    /\ handler = None
    /\ ctor = None
    /\ config = None
    /\ get_logger = "get_logger_placeholder"
    /\ backend = <<>>
    /\ nConfigure = 0
    /\ out = NoOut

BuildExceptionLoggingHandler ==
    \E is_struct_logger \in BOOLEAN, traceback_line_limit \in 0..MaxLimit :
        /\ handler' = _default_exception_logging_handler_factory(is_struct_logger,
                                                                 traceback_line_limit)
        /\ out' = NoOut
        /\ UNCHANGED <<env, ctor, config, get_logger, backend, nConfigure>>

CallExceptionLoggingHandler ==
    /\ handler # None
    /\ \E logger \in Loggers, scope \in Scopes, tb \in Tracebacks :
        out' = [op |-> "exception_logging_handler",
                logger |-> logger, scope |-> scope, tb |-> tb,
                res |-> _default_exception_logging_handler(handler.is_struct_logger,
                            handler.traceback_line_limit, logger, scope, tb)]
    /\ UNCHANGED <<env, handler, ctor, config, get_logger, backend, nConfigure>>

NextHandler == BuildExceptionLoggingHandler \/ CallExceptionLoggingHandler

SpecHandler == Init /\ [][NextHandler]_vars

(***************************************************************************)
(* The application constructs its one config object, configures logging    *)
(* through it and asks the accessor it holds for loggers.                  *)
(***************************************************************************)
NewLoggingConfig ==
    /\ config = None
    /\ \E h \in 1..5, l \in 1..4, r \in 1..3, flag \in BOOLEAN, le \in LogExceptions,
          eh \in {None, CustomHandler} :
          LET args == [LoggingConfigDefaultArgs EXCEPT
                           !.handlers = HandlersArg(h),
                           !.loggers = LoggersArg(l),
                           !.root = RootArg(r),
                           !.configure_root_logger = flag,
                           !.log_exceptions = le,
                           !.exception_logging_handler = eh]
          IN  /\ ctor' = args
              /\ config' = LoggingConfig_new(args, env)
    /\ out' = [op |-> "LoggingConfig"]
    /\ UNCHANGED <<env, handler, get_logger, backend, nConfigure>>

NewStructLoggingConfig ==
    /\ config = None
    /\ \E p \in 1..3, s \in 1..3, lf \in {None, [factory |-> "custom_factory"]},
          le \in LogExceptions, eh \in {None, CustomHandler},
          pretty \in BOOLEAN, isatty \in BOOLEAN :
          LET args == [cls |-> "StructLoggingConfig",
                       processors |-> ProcessorsArg(p),
                       standard_lib_logging_config |-> StandardLibArg(s, env),
                       logger_factory |-> lf,
                       log_exceptions |-> le,
                       traceback_line_limit |-> DefaultTracebackLineLimit,
                       exception_logging_handler |-> eh,
                       pretty_print_tty |-> pretty,
                       isatty |-> isatty]
          IN  /\ ctor' = args
              /\ config' = StructLoggingConfig_new(args, env)
    /\ out' = [op |-> "StructLoggingConfig"]
    /\ UNCHANGED <<env, handler, get_logger, backend, nConfigure>>

\* the accessor the application holds after a configure() call: the one the call
\* returned, or the one held before when the call raised
HeldAccessor(held, r) == IF r.raised THEN held ELSE r.accessor

\* the effect of a configure() call with outcome r
Configured(r) ==
    /\ config' = r.self
    /\ backend' = backend \o r.calls
    /\ get_logger' = HeldAccessor(get_logger, r)
    /\ nConfigure' = nConfigure + 1
    /\ out' = [op |-> "configure", raised |-> r.raised, exc |-> r.exc,
               accessor |-> r.accessor]
    /\ UNCHANGED <<env, handler, ctor>>

ConfigureLoggingConfig ==
    /\ config # None
    /\ ctor.cls = "LoggingConfig"
    /\ nConfigure < MaxConfigure
    /\ Configured(LoggingConfig_configure(config, env))

ConfigureStructLoggingConfig ==
    /\ config # None
    /\ ctor.cls = "StructLoggingConfig"
    /\ nConfigure < MaxConfigure
    /\ Configured(StructLoggingConfig_configure(config, env))

\* a backend's getLogger(name)
BackendGetLogger(accessor, name) ==
    [raised |-> FALSE, exc |-> "", logger |-> [factory |-> accessor, name |-> name]]

GetLogger ==
    /\ \E name \in LoggerNames :
          out' = [op |-> "get_logger", name |-> name,
                  res |-> IF get_logger = "get_logger_placeholder"
                          THEN get_logger_placeholder(name)
                          ELSE BackendGetLogger(get_logger, name)]
    /\ UNCHANGED <<env, handler, ctor, config, get_logger, backend, nConfigure>>

DefaultStructlogProcessors ==
    /\ \E as_json \in BOOLEAN :
          out' = [op |-> "default_structlog_processors", as_json |-> as_json,
                  result |-> default_structlog_processors(as_json, env)]
    /\ UNCHANGED <<env, handler, ctor, config, get_logger, backend, nConfigure>>

DefaultStructlogStandardLibProcessors ==
    /\ \E as_json \in BOOLEAN :
          out' = [op |-> "default_structlog_standard_lib_processors", as_json |-> as_json,
                  result |-> default_structlog_standard_lib_processors(as_json, env)]
    /\ UNCHANGED <<env, handler, ctor, config, get_logger, backend, nConfigure>>

Next ==
    \/ NewLoggingConfig
    \/ NewStructLoggingConfig
    \/ ConfigureLoggingConfig
    \/ ConfigureStructLoggingConfig
    \/ GetLogger
    \/ DefaultStructlogProcessors
    \/ DefaultStructlogStandardLibProcessors

Spec == Init /\ [][Next]_vars

(***************************************************************************)
(* Properties.                                                             *)
(***************************************************************************)
IsLoggingConfig == config # None /\ ctor.cls = "LoggingConfig"
IsStructLoggingConfig == config # None /\ ctor.cls = "StructLoggingConfig"

\* the last n elements of s, in their order
LastLines(s, n) == SubSeq(s, Len(s) - n + 1, Len(s))

\* C1 (as stated): for every limit N >= 0 and every traceback of more than N + 1
\* lines, the handler emits, after the first line, exactly the last N of the
\* remaining lines in their order, and so at most N of them, in both call shapes.
C1_EmitsLastNLines ==
    (/\ out.op = "exception_logging_handler"
     /\ ~out.res.raised
     /\ Len(out.tb) > handler.traceback_line_limit + 1)
    => LET N == handler.traceback_line_limit
           call == out.res.calls[1]
           emitted == IF handler.is_struct_logger
                      THEN call.traceback
                      ELSE SubSeq(call.args.stack_trace, Len(Head(out.tb)) + 1,
                                  Len(call.args.stack_trace))
       IN  /\ emitted = Join(LastLines(Tail(out.tb), N))
           /\ Len(emitted) <= N

\* C2 (as stated): the handler returns normally for every logger, connection
\* context and traceback, the empty traceback and a failing logger included.
C2_HandlerNeverRaises ==
    out.op = "exception_logging_handler" => ~out.res.raised

\* C3 (as stated): with log_exceptions = "never" the exception handler is absent
\* after construction whatever else was passed, a supplied handler included.
C3_NeverMeansNoHandler ==
    (config # None /\ config.log_exceptions = "never")
    => config.exception_logging_handler = None

\* C3 (amended): with log_exceptions = "never" the exception handler after
\* construction is what the caller passed: absent when none was passed, and the
\* caller's handler otherwise; this holds for both config classes.
C3_NeverKeepsWhatWasPassed ==
    (config # None /\ config.log_exceptions = "never")
    => /\ config.exception_logging_handler = ctor.exception_logging_handler
       /\ (ctor.exception_logging_handler = None
              => config.exception_logging_handler = None)

C3_Witness ==
    /\ IsStructLoggingConfig
    /\ config.log_exceptions = "never"
    /\ ctor.exception_logging_handler = None
    /\ config.exception_logging_handler = None

\* C4: a LoggingConfig always has a "queue_listener" handler and a "litestar"
\* logger after construction, whatever maps were passed; entries passed under
\* those names are kept; the settings handed to dictConfig hold both entries.
C4_QueueListenerAndLitestar ==
    IsLoggingConfig
    => /\ "queue_listener" \in DOMAIN config.handlers
       /\ "litestar" \in DOMAIN config.loggers
       /\ (ctor.handlers # MISSING /\ "queue_listener" \in DOMAIN ctor.handlers
              => config.handlers["queue_listener"] = ctor.handlers["queue_listener"])
       /\ (ctor.loggers # MISSING /\ "litestar" \in DOMAIN ctor.loggers
              => config.loggers["litestar"] = ctor.loggers["litestar"])
       /\ \A i \in 1..Len(backend) :
              /\ "handlers" \in DOMAIN backend[i].settings
              /\ "loggers" \in DOMAIN backend[i].settings
              /\ "queue_listener" \in DOMAIN backend[i].settings.handlers
              /\ "litestar" \in DOMAIN backend[i].settings.loggers
              /\ backend[i].settings.handlers = config.handlers
              /\ backend[i].settings.loggers = config.loggers

C4_Witness ==
    /\ IsLoggingConfig
    /\ ctor.handlers = EmptyDict
    /\ ctor.loggers = EmptyDict
    /\ backend # <<>>

\* the dict-based backend that configure() selects can be imported
BackendImportable ==
    MentionsPicologging(config.handlers) => env.picologging

\* C5 (as stated): configure() of a LoggingConfig compiles for every value of root,
\* None included; the settings have a root key exactly when configure_root_logger
\* is true, then equal to the model's root; the flag is never in the settings.
C5_RootKeyForAnyRoot ==
    (IsLoggingConfig /\ out.op = "configure" /\ BackendImportable)
    => /\ ~out.raised
       /\ LET values == backend[Len(backend)].settings
          IN  /\ ("root" \in DOMAIN values) <=> config.configure_root_logger
              /\ "root" \in DOMAIN values => values.root = config.root
              /\ "configure_root_logger" \notin DOMAIN values

\* C5 (amended): configure() of a LoggingConfig whose root is not None and whose
\* backend can be imported compiles; the settings have a root key exactly when
\* configure_root_logger is true, then equal to the model's root; the flag is
\* never in the settings.
C5_RootKeyForNonNullRoot ==
    (IsLoggingConfig /\ out.op = "configure" /\ BackendImportable /\ config.root # None)
    => /\ ~out.raised
       /\ LET values == backend[Len(backend)].settings
          IN  /\ ("root" \in DOMAIN values) <=> config.configure_root_logger
              /\ "root" \in DOMAIN values => values.root = config.root
              /\ "configure_root_logger" \notin DOMAIN values

C5_Witness ==
    /\ IsLoggingConfig
    /\ out.op = "configure"
    /\ ~out.raised
    /\ ~config.configure_root_logger
    /\ ctor.root = RootArg(2)
    /\ "root" \notin DOMAIN backend[Len(backend)].settings

DefaultLoggingConfig == LoggingConfig_new(LoggingConfigDefaultArgs, env)

\* C6 (as stated): with structlog installed, processors is non-empty and
\* logger_factory and exception_logging_handler are set after construction for
\* every combination of arguments; without it, standard_lib_logging_config is a
\* default LoggingConfig and processors and logger_factory stay empty.
C6_AlwaysResolved ==
    IsStructLoggingConfig
    => IF env.structlog
       THEN /\ config.processors # None
            /\ config.processors.items # <<>>
            /\ config.logger_factory # None
            /\ config.exception_logging_handler # None
       ELSE /\ config.standard_lib_logging_config = DefaultLoggingConfig
            /\ config.processors = PyList(<<>>)
            /\ config.logger_factory = None

\* C6 (amended): with structlog installed, processors is set, and non-empty when
\* the caller passed none, logger_factory is set, and exception_logging_handler is
\* set unless log_exceptions is "never" and the caller passed none; without
\* structlog, standard_lib_logging_config is a default LoggingConfig, and
\* processors and logger_factory are empty unless the caller passed them.
C6_ResolvedUnlessNever ==
    IsStructLoggingConfig
    => IF env.structlog
       THEN /\ config.processors # None
            /\ (ctor.processors = None => config.processors.items # <<>>)
            /\ config.logger_factory # None
            /\ (config.log_exceptions # "never" \/ ctor.exception_logging_handler # None
                   => config.exception_logging_handler # None)
       ELSE /\ config.standard_lib_logging_config = DefaultLoggingConfig
            /\ (ctor.processors = None => config.processors = PyList(<<>>))
            /\ (ctor.logger_factory = None => config.logger_factory = None)

C6_Witness ==
    /\ IsStructLoggingConfig
    /\ env.structlog
    /\ ctor.processors = None
    /\ ctor.logger_factory = None
    /\ config.log_exceptions = "never"
    /\ config.exception_logging_handler = None
    /\ config.logger_factory # None

ReturnedAccessors == {"logging.getLogger", "picologging.getLogger", "structlog.get_logger"}

\* C7: while no configure() call has completed, every request for a logger, with
\* or without a name, raises ImproperlyConfiguredException and returns no logger;
\* a logger is only ever handed out by an accessor that configure() returned.
C7_UnconfiguredRaises ==
    /\ (backend = <<>>) <=> (get_logger = "get_logger_placeholder")
    /\ out.op = "get_logger"
          => /\ backend = <<>>
                   => /\ out.res.raised
                      /\ out.res.exc = "ImproperlyConfiguredException"
                      /\ out.res.logger = None
             /\ ~out.res.raised
                   => /\ backend # <<>>
                      /\ out.res.logger.factory \in ReturnedAccessors

C7_Witness ==
    /\ out.op = "get_logger"
    /\ out.res.raised
    /\ out.name = None
    /\ config # None
    /\ nConfigure > 0
    /\ backend = <<>>

\* C8: a configure() call leaves every field of the model as it was and invokes
\* the backend's native entry point exactly once when it returns; a configure()
\* call that directly follows a configure() call that returned does not raise,
\* hands the backend the same settings and returns the same accessor.
C8_ReconfigureIsIdempotent ==
    [][nConfigure' = nConfigure + 1
       => /\ config' = config
          /\ Len(backend') = Len(backend) + (IF out'.raised THEN 0 ELSE 1)
          /\ (out.op = "configure" /\ ~out.raised)
                => /\ ~out'.raised
                   /\ backend'[Len(backend')] = backend[Len(backend)]
                   /\ out'.accessor = out.accessor
                   /\ get_logger' = get_logger]_vars

C8_Witness ==
    /\ IsLoggingConfig
    /\ ~config.configure_root_logger
    /\ nConfigure >= 2
    /\ Len(backend) >= 2
    /\ out.op = "configure"
    /\ ~out.raised

RendererNames == {"structlog.processors.JSONRenderer", "structlog.dev.ConsoleRenderer"}

\* C9: with structlog installed, both pipeline builders return a pipeline whose
\* last step is the JSON renderer when as_json is true and the console renderer
\* when it is false, with no renderer before the last step; without structlog
\* both return the empty list.
C9_PipelineEndsInRenderer ==
    out.op \in {"default_structlog_processors", "default_structlog_standard_lib_processors"}
    => IF env.structlog
       THEN /\ out.result # <<>>
            /\ out.result[Len(out.result)].name =
                   (IF out.as_json THEN "structlog.processors.JSONRenderer"
                                   ELSE "structlog.dev.ConsoleRenderer")
            /\ \A i \in 1..(Len(out.result) - 1) : out.result[i].name \notin RendererNames
       ELSE out.result = <<>>

C9_Witness ==
    /\ out.op = "default_structlog_processors"
    /\ ~out.as_json
    /\ env.structlog
    /\ out.result[Len(out.result)].name = "structlog.dev.ConsoleRenderer"

\* C10 (as stated): a standard_lib_logging_config passed to StructLoggingConfig is
\* still the config's standard_lib_logging_config, unchanged, after construction,
\* with and without structlog installed.
C10_PassedStandardLibConfigKept ==
    (IsStructLoggingConfig /\ ctor.standard_lib_logging_config # None)
    => config.standard_lib_logging_config = ctor.standard_lib_logging_config

====
